---- MODULE Spec2Model ----
(***************************************************************************)
(* State-machine model of configloader.ConfigLoader[Config]:               *)
(* the loader's fields, the file system it reads, one caller goroutine,    *)
(* the readers of the subscription channels and the watch goroutine.       *)
(* Config is the test type TestConf{Foo string}.                           *)
(***************************************************************************)
EXTENDS Naturals, Sequences, FiniteSets, TLC

\* ------------------------------------------------------------------ bounds
\* Largest number of channels Subscribe may register.
MaxSubs == 2

\* The same, where every file content and every callback is tried (SpecLoad).
MaxSubsLoad == 1

\* Largest number of write events kept waiting in w.Events.
MaxEvents == 1

\* Number of subscribers of the fan-out scenario (SpecFan).
MaxSubsFan == 2

\* ------------------------------------------------------------------ inputs
\* The paths handed to SetConfigPath ("" is "no path").
Paths == {"d1/a.yaml", "d2/b.yaml"}

\* filepath.Dir of the paths of the model.
Dir(p) == IF p = "d1/a.yaml" THEN "d1" ELSE IF p = "d2/b.yaml" THEN "d2" ELSE "."

\* A file that does not exist (os.ReadFile fails).
NoFile == "<missing>"

\* The byte contents a file takes: two encodings of Foo="good", Foo="bad",
\* and bytes that are no YAML mapping.
Contents == {"foo: good\n", "{foo: good}\n", "foo: bad\n", "foo: [\n"}

\* var zero Config
zero == [Foo |-> ""]

\* The callbacks handed to RegisterCallback; "nil" is no callback.
\*   setDefault : Foo == "" becomes "default"            (TestLoadNoConfig)
\*   rejectBad  : rejects Foo == "bad"                   (TestConfigLoaderCallback)
\*   rejectEmpty: rejects Foo == "" (a validator of a mandatory field)
Callbacks == {"nil", "setDefault", "rejectBad", "rejectEmpty"}

\* b.callback(v): the value returned and whether the error is nil.
Callback(cb, v) ==
    IF cb = "setDefault"
    THEN [ok |-> TRUE, val |-> IF v.Foo = "" THEN [Foo |-> "default"] ELSE v]
    ELSE IF cb = "rejectBad" THEN [ok |-> v.Foo # "bad", val |-> v]
    ELSE IF cb = "rejectEmpty" THEN [ok |-> v.Foo # "", val |-> v]
    ELSE [ok |-> TRUE, val |-> v]

\* ------------------------------------------------------- external functions
\* fmt.Sprintf("%x", sha256.Sum256(bytes)): a digest, never the empty string,
\* taken to be free of collisions.
Sha256(bytes) == "sha256:" \o bytes

\* yaml.Unmarshal(bytes, conf) into a TestConf.
Unmarshal(bytes) ==
    IF bytes = "foo: good\n" \/ bytes = "{foo: good}\n"
    THEN [ok |-> TRUE, val |-> [Foo |-> "good"]]
    ELSE IF bytes = "foo: bad\n" THEN [ok |-> TRUE, val |-> [Foo |-> "bad"]]
    ELSE IF bytes = "foo: default\n" THEN [ok |-> TRUE, val |-> [Foo |-> "default"]]
    ELSE IF bytes = "foo: \"\"\n" \/ bytes = "" THEN [ok |-> TRUE, val |-> zero]
    ELSE [ok |-> FALSE, val |-> zero]

\* yaml.Marshal(v) of a TestConf.
Marshal(v) == IF v.Foo = "" THEN "foo: \"\"\n" ELSE "foo: " \o v.Foo \o "\n"

\* os.ReadFile(path).
ReadFile(fs, p) ==
    IF fs[p] = NoFile THEN [ok |-> FALSE, bytes |-> ""] ELSE [ok |-> TRUE, bytes |-> fs[p]]

\* ------------------------------------------------------------- channels
\* make(chan Config, 1): the capacity of a subscriber channel.
ChanCap == 1

\* make(chan string, 1): the capacity of the control channel.
ControlCap == 1

\* Mutant: the value sent replaces the one waiting in the channel.
TrySendMutOverwrite(ch, v) == <<v>>

\* select { case s <- v: default: }: a send that never blocks; a full
\* channel keeps what it holds and v is dropped.
TrySend(ch, v) == IF Len(ch) < ChanCap THEN Append(ch, v) ELSE ch

\* Mutant: the broadcast loop stops after the first subscriber.
BroadcastMutFirstOnly(ss, v) == [i \in DOMAIN ss |-> IF i = 1 THEN TrySend(ss[i], v) ELSE ss[i]]

\* for _, s := range b.subs { select { case s <- v: default: } }
Broadcast(ss, v) == [i \in DOMAIN ss |-> TrySend(ss[i], v)]

\* The number of channels of ss that a broadcast changes.
Takers(ss, v) == Cardinality({i \in DOMAIN ss : TrySend(ss[i], v) # ss[i]})

\* --------------------------------------------------------------- Load
\* Mutant: the callback is not applied to the default.
defaultConfigMutNoCallback(cb) == [ok |-> TRUE, val |-> zero]

\* b.defaultConfig(): the zero value, passed through the callback if one is set.
defaultConfig(cb) == IF cb = "nil" THEN [ok |-> TRUE, val |-> zero] ELSE Callback(cb, zero)

\* Mutant: the fingerprint check never ends Load early.
SameFingerprintMutNever(fp, stored) == FALSE

\* if fprint == b.fprint: the content read is the content stored.
SameFingerprint(fp, stored) == fp = stored

\* Mutant: the nil test is inverted.
ReadFailureIsErrorMutInverted(cf, req) == cf # <<>> /\ req

\* if b.conf == nil && b.required: a failed read is an error.
ReadFailureIsError(cf, req) == cf = <<>> /\ req

\* Mutant: a run of Load that returns an error forgets the stored config.
LoadKeepMutDrop(cf, fp, ss, kind, err, bytes, decoded, cbCalled) ==
    [err |-> err, kind |-> kind, conf |-> IF err THEN <<>> ELSE cf,
     fprint |-> IF err THEN "" ELSE fp, subs |-> ss,
     decoded |-> decoded, cbCalled |-> cbCalled, sent |-> FALSE, took |-> 0,
     bytes |-> bytes]

\* What one run of Load computes from the loader's fields and the file system:
\*   err      the error returned is not nil
\*   kind     the return statement taken
\*   conf, fprint, subs   the fields as Load leaves them
\*   decoded, cbCalled    yaml.Unmarshal / b.callback were invoked
\*   sent     the broadcast loop ran
\*   took     how many channels took the value it sent
\*   bytes    the bytes os.ReadFile returned ("" when it did not run or failed)
LoadKeep(cf, fp, ss, kind, err, bytes, decoded, cbCalled) ==
    [err |-> err, kind |-> kind, conf |-> cf, fprint |-> fp, subs |-> ss,
     decoded |-> decoded, cbCalled |-> cbCalled, sent |-> FALSE, took |-> 0,
     bytes |-> bytes]

\* Mutant: the default is stored and broadcast only when its fingerprint is
\* not the stored one.
LoadNoPathMutCompare(cf, fp, cb, ss) ==
    LET d == defaultConfig(cb) IN
    IF ~d.ok
    THEN LoadKeep(cf, fp, ss, "default-rejected", TRUE, "", FALSE, cb # "nil")
    ELSE IF SameFingerprint(Sha256(Marshal(d.val)), fp)
    THEN LoadKeep(cf, fp, ss, "unchanged", FALSE, "", FALSE, cb # "nil")
    ELSE [err |-> FALSE, kind |-> "default", conf |-> <<d.val>>,
          fprint |-> Sha256(Marshal(d.val)), subs |-> Broadcast(ss, d.val),
          decoded |-> FALSE, cbCalled |-> cb # "nil", sent |-> TRUE,
          took |-> Takers(ss, d.val), bytes |-> ""]

\* path == "" && !required
LoadNoPath(cf, fp, cb, ss) ==
    LET d == defaultConfig(cb) IN
    IF ~d.ok
    THEN LoadKeep(cf, fp, ss, "default-rejected", TRUE, "", FALSE, cb # "nil")
    ELSE [err |-> FALSE, kind |-> "default", conf |-> <<d.val>>,
          fprint |-> Sha256(Marshal(d.val)), subs |-> Broadcast(ss, d.val),
          decoded |-> FALSE, cbCalled |-> cb # "nil", sent |-> TRUE,
          took |-> Takers(ss, d.val), bytes |-> ""]

\* Mutant: b.conf is assigned before the callback has accepted the value.
LoadReadMutStoreEarly(cf, fp, cb, ss, bytes) ==
    LET h   == Sha256(bytes)
        dec == Unmarshal(bytes)
        new == IF cb = "nil" THEN dec ELSE Callback(cb, dec.val)
    IN  IF SameFingerprint(h, fp)
        THEN LoadKeep(cf, fp, ss, "unchanged", FALSE, bytes, FALSE, FALSE)
        ELSE IF ~dec.ok
        THEN LoadKeep(cf, fp, ss, "decode-error", TRUE, bytes, TRUE, FALSE)
        ELSE IF ~new.ok
        THEN LoadKeep(<<dec.val>>, fp, ss, "rejected", TRUE, bytes, TRUE, TRUE)
        ELSE [err |-> FALSE, kind |-> "stored", conf |-> <<new.val>>, fprint |-> h,
              subs |-> Broadcast(ss, new.val), decoded |-> TRUE,
              cbCalled |-> cb # "nil", sent |-> TRUE, took |-> Takers(ss, new.val),
              bytes |-> bytes]

\* Mutant: b.fprint is assigned before the callback has accepted the value.
LoadReadMutFprintEarly(cf, fp, cb, ss, bytes) ==
    LET h   == Sha256(bytes)
        dec == Unmarshal(bytes)
        new == IF cb = "nil" THEN dec ELSE Callback(cb, dec.val)
    IN  IF SameFingerprint(h, fp)
        THEN LoadKeep(cf, fp, ss, "unchanged", FALSE, bytes, FALSE, FALSE)
        ELSE IF ~dec.ok
        THEN LoadKeep(cf, fp, ss, "decode-error", TRUE, bytes, TRUE, FALSE)
        ELSE IF ~new.ok
        THEN LoadKeep(cf, h, ss, "rejected", TRUE, bytes, TRUE, TRUE)
        ELSE [err |-> FALSE, kind |-> "stored", conf |-> <<new.val>>, fprint |-> h,
              subs |-> Broadcast(ss, new.val), decoded |-> TRUE,
              cbCalled |-> cb # "nil", sent |-> TRUE, took |-> Takers(ss, new.val),
              bytes |-> bytes]

\* os.ReadFile succeeded with `bytes`.
LoadRead(cf, fp, cb, ss, bytes) ==
    LET h   == Sha256(bytes)
        dec == Unmarshal(bytes)
        new == IF cb = "nil" THEN dec ELSE Callback(cb, dec.val)
    IN  IF SameFingerprint(h, fp)
        THEN LoadKeep(cf, fp, ss, "unchanged", FALSE, bytes, FALSE, FALSE)
        ELSE IF ~dec.ok
        THEN LoadKeep(cf, fp, ss, "decode-error", TRUE, bytes, TRUE, FALSE)
        ELSE IF ~new.ok
        THEN LoadKeep(cf, fp, ss, "rejected", TRUE, bytes, TRUE, TRUE)
        ELSE [err |-> FALSE, kind |-> "stored", conf |-> <<new.val>>, fprint |-> h,
              subs |-> Broadcast(ss, new.val), decoded |-> TRUE,
              cbCalled |-> cb # "nil", sent |-> TRUE, took |-> Takers(ss, new.val),
              bytes |-> bytes]

\* Mutant: the default stored after a failed read is broadcast too.
LoadReadFailedMutBroadcast(cf, fp, req, cb, ss) ==
    LET d == defaultConfig(cb) IN
    IF ReadFailureIsError(cf, req)
    THEN LoadKeep(cf, fp, ss, "read-error", TRUE, "", FALSE, FALSE)
    ELSE IF cf # <<>>
    THEN LoadKeep(cf, fp, ss, "kept", FALSE, "", FALSE, FALSE)
    ELSE IF ~d.ok
    THEN LoadKeep(cf, fp, ss, "default-rejected", TRUE, "", FALSE, cb # "nil")
    ELSE [err |-> FALSE, kind |-> "fallback", conf |-> <<d.val>>,
          fprint |-> Sha256(Marshal(d.val)), subs |-> Broadcast(ss, d.val),
          decoded |-> FALSE, cbCalled |-> cb # "nil", sent |-> TRUE,
          took |-> Takers(ss, d.val), bytes |-> ""]

\* Mutant: a stored config is not kept when the read fails; the default
\* replaces it.
LoadReadFailedMutNoKeep(cf, fp, req, cb, ss) ==
    LET d == defaultConfig(cb) IN
    IF ReadFailureIsError(cf, req)
    THEN LoadKeep(cf, fp, ss, "read-error", TRUE, "", FALSE, FALSE)
    ELSE IF ~d.ok
    THEN LoadKeep(cf, fp, ss, "default-rejected", TRUE, "", FALSE, cb # "nil")
    ELSE [err |-> FALSE, kind |-> "fallback", conf |-> <<d.val>>,
          fprint |-> Sha256(Marshal(d.val)), subs |-> ss, decoded |-> FALSE,
          cbCalled |-> cb # "nil", sent |-> FALSE, took |-> 0, bytes |-> ""]

\* os.ReadFile failed.
LoadReadFailed(cf, fp, req, cb, ss) ==
    LET d == defaultConfig(cb) IN
    IF ReadFailureIsError(cf, req)
    THEN LoadKeep(cf, fp, ss, "read-error", TRUE, "", FALSE, FALSE)
    ELSE IF cf # <<>>
    THEN LoadKeep(cf, fp, ss, "kept", FALSE, "", FALSE, FALSE)
    ELSE IF ~d.ok
    THEN LoadKeep(cf, fp, ss, "default-rejected", TRUE, "", FALSE, cb # "nil")
    ELSE [err |-> FALSE, kind |-> "fallback", conf |-> <<d.val>>,
          fprint |-> Sha256(Marshal(d.val)), subs |-> ss, decoded |-> FALSE,
          cbCalled |-> cb # "nil", sent |-> FALSE, took |-> 0, bytes |-> ""]

\* Mutant: an empty path yields the default whether or not the config is
\* required.
LoadMutIgnoreRequired(p, req, cf, fp, cb, ss, fs) ==
    IF p = "" THEN LoadNoPath(cf, fp, cb, ss)
    ELSE IF ReadFile(fs, p).ok THEN LoadRead(cf, fp, cb, ss, ReadFile(fs, p).bytes)
    ELSE LoadReadFailed(cf, fp, req, cb, ss)

\* func (b *ConfigLoader[Config]) Load() error, the body under b.mu.
Load(p, req, cf, fp, cb, ss, fs) ==
    IF p = "" /\ ~req THEN LoadNoPath(cf, fp, cb, ss)
    ELSE IF p = "" /\ req
    THEN LoadKeep(cf, fp, ss, "no-path", TRUE, "", FALSE, FALSE)
    ELSE IF ReadFile(fs, p).ok THEN LoadRead(cf, fp, cb, ss, ReadFile(fs, p).bytes)
    ELSE LoadReadFailed(cf, fp, req, cb, ss)

\* ------------------------------------------------------------------ state
VARIABLES
    path,       \* b.path
    required,   \* b.required
    fprint,     \* b.fprint
    conf,       \* b.conf: <<>> is nil, <<v>> points to v
    control,    \* b.control: the commands buffered in the channel
    closed,     \* close(b.control) has run
    subs,       \* b.subs: the buffer of each subscriber channel, in order
    callback,   \* b.callback
    files,      \* the file system: the content of each path, or NoFile
    bcast,      \* the value the last broadcast loop sent, <<>> before the first
    pc,         \* where the calling goroutine is inside a public method
    loc,        \* Subscribe's local `conf`
    wpc,        \* where the watch goroutine is
    wpath,      \* watch's local `path`
    watched,    \* the directories added to the fsnotify watcher
    events,     \* write events waiting in w.Events
    mu,         \* b.mu: the goroutine that holds it, "" when it is free
    lpc,        \* where each goroutine is inside a Load run statement by statement
    lres,       \* Load's locals in that run: what it read and decided
    args,       \* the parameters of the SetConfigPath run statement by statement
    last        \* what the step that led here did (observation only)

vars == <<path, required, fprint, conf, control, closed, subs, callback, files,
          bcast, pc, loc, wpc, wpath, watched, events, mu, lpc, lres, args, last>>

loader == <<path, required, fprint, conf, subs, callback>>
watcher == <<wpc, wpath, watched, events>>
fine == <<mu, lpc, lres, args>>

\* The goroutines that call Load: the caller of the public methods and watch.
Goroutines == {"caller", "watch"}

\* What the calling code writes to each path.
Writable(p) == IF p = "d1/a.yaml" THEN Contents ELSE {"foo: bad\n"}

\* A Load result for the steps that run no Load.
NoLoad == LoadKeep(<<>>, "", <<>>, "", FALSE, "", FALSE, FALSE)

\* The observation of a step: the code step `op`, the caller `by` of a Load,
\* the public method `ret` that returns in this step with error `err` and
\* value `val`, and the Load result `r`. `tick` is set when the observation
\* would repeat the previous one, so that no observed step leaves the state
\* as it was.
Obs(op, by, ret, err, val, r) ==
    LET o == [op |-> op, by |-> by, ret |-> ret, err |-> err, val |-> val, r |-> r,
              tick |-> FALSE]
    IN  IF last = o THEN [o EXCEPT !.tick = TRUE] ELSE o

\* The observation of the steps of the environment and of the watch loop that
\* run no Load and return nothing to a caller.
Silent == [op |-> "", by |-> "", ret |-> "", err |-> FALSE, val |-> <<>>, r |-> NoLoad,
           tick |-> FALSE]

\* NewConfigLoader(): a loader with no path, no config and an empty control
\* channel; the watch goroutine is started and has not run yet.
Init ==
    /\ path = ""
    /\ required = FALSE
    /\ fprint = ""
    /\ conf = <<>>
    /\ control = <<>>
    /\ closed = FALSE
    /\ subs = <<>>
    /\ callback = "nil"
    /\ bcast = <<>>
    /\ files \in {f \in [Paths -> Contents \cup {NoFile}] :
                    \A p \in Paths : f[p] \in Writable(p) \cup {NoFile}}
    /\ pc = "idle"
    /\ loc = <<>>
    /\ wpc = "new"
    /\ wpath = ""
    /\ watched = {}
    /\ events = 0
    /\ mu = ""
    /\ lpc = [g \in Goroutines |-> ""]
    /\ lres = [g \in Goroutines |-> NoLoad]
    /\ args = <<>>
    /\ last = Silent

\* One run of Load on the loader's fields, called by `by`; `ret` is the public
\* method that returns its error in this step, if any.
RunLoad(by, ret) ==
    LET r == Load(path, required, conf, fprint, callback, subs, files) IN
    /\ conf' = r.conf
    /\ fprint' = r.fprint
    /\ subs' = r.subs
    /\ bcast' = IF r.sent THEN r.conf ELSE bcast
    /\ last' = Obs("Load", by, ret, r.err, <<>>, r)
    /\ UNCHANGED <<path, required, callback, files, control, closed>>
    /\ UNCHANGED fine

\* ------------------------------------------------------ the public methods
\* b.Load() called directly.
CallLoad ==
    /\ pc = "idle"
    /\ RunLoad("Load", "Load")
    /\ UNCHANGED <<pc, loc, watcher>>

\* Mutant: the no-op test is missing; every call sets the fields and goes on.
SetConfigPathMutAlways(p, req) ==
    /\ pc = "idle"
    /\ ~closed
    /\ path' = p
    /\ required' = req
    /\ pc' = "scp_send"
    /\ last' = Obs("SetConfigPath", "", "", FALSE, <<>>, NoLoad)
    /\ UNCHANGED <<fprint, conf, control, closed, subs, callback, files, bcast, loc, watcher>>
    /\ UNCHANGED fine

\* SetConfigPath(p, req), up to b.mu.Unlock(): a no-op that returns nil when
\* the pair is the current one, else the two fields are set.
SetConfigPath(p, req) ==
    /\ pc = "idle"
    /\ ~closed
    /\ IF path = p /\ required = req
       THEN /\ last' = Obs("SetConfigPath", "", "SetConfigPath", FALSE, <<>>, NoLoad)
            /\ UNCHANGED <<path, required, pc>>
       ELSE /\ path' = p
            /\ required' = req
            /\ pc' = "scp_send"
            /\ last' = Obs("SetConfigPath", "", "", FALSE, <<>>, NoLoad)
    /\ UNCHANGED <<fprint, conf, control, closed, subs, callback, files, bcast, loc, watcher>>
    /\ UNCHANGED fine

\* Mutant: SetConfigPath forgets the stored fingerprint, so that its Load
\* stores and broadcasts whatever it reads.
ScpSendMutForget ==
    /\ pc = "scp_send"
    /\ Len(control) < ControlCap
    /\ control' = Append(control, "update")
    /\ fprint' = ""
    /\ pc' = "scp_load"
    /\ last' = Silent
    /\ UNCHANGED <<path, required, conf, subs, callback, closed, files, bcast, loc, watcher>>
    /\ UNCHANGED fine

\* SetConfigPath: b.control <- "update" (blocks while the channel is full).
ScpSend ==
    /\ pc = "scp_send"
    /\ Len(control) < ControlCap
    /\ control' = Append(control, "update")
    /\ pc' = "scp_load"
    /\ last' = Silent
    /\ UNCHANGED <<loader, closed, files, bcast, loc, watcher>>
    /\ UNCHANGED fine

\* Mutant: SetConfigPath returns nil without calling Load.
ScpLoadMutSkip ==
    /\ pc = "scp_load"
    /\ pc' = "idle"
    /\ last' = Obs("ScpLoad", "SetConfigPath", "SetConfigPath", FALSE, <<>>, NoLoad)
    /\ UNCHANGED <<loader, control, closed, files, bcast, loc, watcher>>
    /\ UNCHANGED fine

\* SetConfigPath: err := b.Load(); return err.
ScpLoad ==
    /\ pc = "scp_load"
    /\ RunLoad("SetConfigPath", "SetConfigPath")
    /\ pc' = "idle"
    /\ UNCHANGED <<loc, watcher>>

\* Mutant: registering a callback forgets the stored fingerprint, so that the
\* next Load validates the file again.
RegisterCallbackMutRevalidate(cb) ==
    /\ pc = "idle"
    /\ callback' = cb
    /\ fprint' = ""
    /\ last' = Obs("RegisterCallback", "", "RegisterCallback", FALSE, <<>>, NoLoad)
    /\ UNCHANGED <<path, required, conf, control, closed, subs, files, bcast,
                   pc, loc, watcher>>
    /\ UNCHANGED fine

\* RegisterCallback(cb).
RegisterCallback(cb) ==
    /\ pc = "idle"
    /\ callback' = cb
    /\ last' = Obs("RegisterCallback", "", "RegisterCallback", FALSE, <<>>, NoLoad)
    /\ UNCHANGED <<path, required, fprint, conf, control, closed, subs, files, bcast,
                   pc, loc, watcher>>
    /\ UNCHANGED fine

\* Mutant: Config() calls Load only when a path is set.
ConfigMutNeedsPath ==
    /\ pc = "idle"
    /\ IF conf = <<>> /\ path # ""
       THEN /\ last' = Obs("Config", "", "", FALSE, <<>>, NoLoad)
            /\ pc' = "cfg_load"
       ELSE /\ last' = Obs("Config", "", "Config", FALSE, conf, NoLoad)
            /\ pc' = pc
    /\ UNCHANGED <<loader, control, closed, files, bcast, loc, watcher>>
    /\ UNCHANGED fine

\* Config(), first critical section: a stored config is returned at once,
\* else the lock is released and Load is called.
Config ==
    /\ pc = "idle"
    /\ IF conf # <<>>
       THEN /\ last' = Obs("Config", "", "Config", FALSE, conf, NoLoad)
            /\ pc' = pc
       ELSE /\ last' = Obs("Config", "", "", FALSE, <<>>, NoLoad)
            /\ pc' = "cfg_load"
    /\ UNCHANGED <<loader, control, closed, files, bcast, loc, watcher>>
    /\ UNCHANGED fine

\* Config(): err := b.Load(), the error only logged.
CfgLoad ==
    /\ pc = "cfg_load"
    /\ RunLoad("Config", "")
    /\ pc' = "cfg_read"
    /\ UNCHANGED <<loc, watcher>>

\* Config(), second critical section: conf = b.conf; return.
CfgRead ==
    /\ pc = "cfg_read"
    /\ pc' = "idle"
    /\ last' = Obs("CfgRead", "", "Config", FALSE, conf, NoLoad)
    /\ UNCHANGED <<loader, control, closed, files, bcast, loc, watcher>>
    /\ UNCHANGED fine

\* Mutant: Subscribe returns the new channel without the stored config in it.
SubscribeMutNoInitial(n) ==
    /\ pc = "idle"
    /\ Len(subs) < n
    /\ subs' = Append(subs, <<>>)
    /\ last' = Obs("Subscribe", "", "Subscribe", FALSE, <<>>, NoLoad)
    /\ UNCHANGED <<path, required, fprint, conf, control, closed, callback, files, bcast,
                   pc, loc, watcher>>
    /\ UNCHANGED fine

\* Subscribe(), the critical section: a new channel of capacity one is
\* appended to b.subs and b.conf is read; with no config the channel is returned.
\* At most n channels are registered.
Subscribe(n) ==
    /\ pc = "idle"
    /\ Len(subs) < n
    /\ subs' = Append(subs, <<>>)
    /\ loc' = conf
    /\ IF conf = <<>>
       THEN /\ pc' = pc
            /\ last' = Obs("Subscribe", "", "Subscribe", FALSE, <<>>, NoLoad)
       ELSE /\ pc' = "sub_send"
            /\ last' = Obs("Subscribe", "", "", FALSE, <<>>, NoLoad)
    /\ UNCHANGED <<path, required, fprint, conf, control, closed, callback, files, bcast,
                   watcher>>
    /\ UNCHANGED fine

\* Mutant: the initial value replaces whatever the new channel holds.
SubSendMutForce ==
    /\ pc = "sub_send"
    /\ subs' = [subs EXCEPT ![Len(subs)] = loc]
    /\ pc' = "idle"
    /\ loc' = <<>>
    /\ last' = Obs("SubSend", "", "Subscribe", FALSE, loc, NoLoad)
    /\ UNCHANGED <<path, required, fprint, conf, control, closed, callback, files, bcast,
                   watcher>>
    /\ UNCHANGED fine

\* Subscribe(): ret <- *conf (blocks while the new channel is full); return ret.
SubSend ==
    /\ pc = "sub_send"
    /\ Len(subs[Len(subs)]) < ChanCap
    /\ subs' = [subs EXCEPT ![Len(subs)] = Append(@, loc[1])]
    /\ pc' = "idle"
    /\ loc' = <<>>
    /\ last' = Obs("SubSend", "", "Subscribe", FALSE, loc, NoLoad)
    /\ UNCHANGED <<path, required, fprint, conf, control, closed, callback, files, bcast,
                   watcher>>
    /\ UNCHANGED fine

\* The channels Subscribe has returned: the only ones anybody can read.
Returned == {i \in DOMAIN subs : ~(pc = "sub_send" /\ i = Len(subs))}

\* The subscriber reads its channel: <-ch.
Recv(i) ==
    /\ i \in Returned
    /\ subs[i] # <<>>
    /\ subs' = [subs EXCEPT ![i] = Tail(@)]
    /\ last' = Silent
    /\ UNCHANGED <<path, required, fprint, conf, control, closed, callback, files, bcast,
                   pc, loc, watcher>>
    /\ UNCHANGED fine

\* Close(): b.control <- "done" (blocks while the channel is full).
CloseSend ==
    /\ pc = "idle"
    /\ ~closed
    /\ Len(control) < ControlCap
    /\ control' = Append(control, "done")
    /\ pc' = "close"
    /\ last' = Silent
    /\ UNCHANGED <<loader, closed, files, bcast, loc, watcher>>
    /\ UNCHANGED fine

\* Close(): close(b.control).
Close ==
    /\ pc = "close"
    /\ closed' = TRUE
    /\ pc' = "idle"
    /\ last' = Obs("Close", "", "Close", FALSE, <<>>, NoLoad)
    /\ UNCHANGED <<loader, control, files, bcast, loc, watcher>>
    /\ UNCHANGED fine

\* ------------------------------------------------------------ environment
\* Somebody writes content c to path p (os.WriteFile) or removes the file
\* (c = NoFile). A write in a watched directory queues a Write event.
WriteFile(p, c) ==
    /\ files' = [files EXCEPT ![p] = c]
    /\ events' = IF c # NoFile /\ Dir(p) \in watched /\ events < MaxEvents
                 THEN events + 1 ELSE events
    /\ \/ c # files[p]
       \/ c # NoFile /\ events' # events
    /\ last' = Silent
    /\ UNCHANGED <<loader, bcast, control, closed, pc, loc, wpc, wpath, watched>>
    /\ UNCHANGED fine

\* ------------------------------------------------------ the watch goroutine
\* The directories to watch for path p: w.Add(filepath.Dir(p)) when p != "".
DirsOf(p) == IF p = "" THEN {} ELSE {Dir(p)}

\* watch(): fsnotify.NewWatcher() fails; the loop falls back to polling.
WatchStartPoll ==
    /\ wpc = "new"
    /\ wpc' = "poll"
    /\ last' = Silent
    /\ UNCHANGED <<loader, control, closed, files, bcast, pc, loc, wpath, watched, events>>
    /\ UNCHANGED fine

\* watch(): the watcher is created, b.path is read under the lock and its
\* directory is added when the path is not empty.
WatchStartNotify ==
    /\ wpc = "new"
    /\ wpc' = "notify"
    /\ wpath' = path
    /\ watched' = DirsOf(path)
    /\ last' = Silent
    /\ UNCHANGED <<loader, control, closed, files, bcast, pc, loc, events>>
    /\ UNCHANGED fine

\* Mutant: "done" is received like any other command and the loop goes on.
WatchRecvMutIgnoreDone ==
    /\ wpc \in {"notify", "poll"}
    /\ control # <<>>
    /\ control' = Tail(control)
    /\ wpc' = IF wpc = "notify" /\ Head(control) = "update" THEN "update" ELSE wpc
    /\ last' = Silent
    /\ UNCHANGED <<loader, closed, files, bcast, pc, loc, wpath, watched, events>>
    /\ UNCHANGED fine

\* case cmd := <-b.control: "done" ends the loop (the deferred w.Close()
\* drops the watches); "update" is acted on in notification mode only.
WatchRecv ==
    /\ wpc \in {"notify", "poll"}
    /\ control # <<>>
    /\ control' = Tail(control)
    /\ IF Head(control) = "done"
       THEN /\ wpc' = "stopped"
            /\ watched' = {}
            /\ events' = 0
       ELSE /\ wpc' = IF wpc = "notify" THEN "update" ELSE wpc
            /\ UNCHANGED <<watched, events>>
    /\ last' = Silent
    /\ UNCHANGED <<loader, closed, files, bcast, pc, loc, wpath>>
    /\ UNCHANGED fine

\* Mutant: the old directory is not removed.
WatchUpdateMutNoRemove ==
    /\ wpc = "update"
    /\ wpc' = "notify"
    /\ wpath' = path
    /\ watched' = watched \cup DirsOf(path)
    /\ last' = Silent
    /\ UNCHANGED <<loader, control, closed, files, bcast, pc, loc, events>>
    /\ UNCHANGED fine

\* cmd == "update": oldpath := path; path = b.path under the lock; the old
\* directory is removed and the new one added, each when its path is not empty.
WatchUpdate ==
    /\ wpc = "update"
    /\ wpc' = "notify"
    /\ wpath' = path
    /\ watched' = (watched \ DirsOf(wpath)) \cup DirsOf(path)
    /\ last' = Silent
    /\ UNCHANGED <<loader, control, closed, files, bcast, pc, loc, events>>
    /\ UNCHANGED fine

\* case _, ok := <-w.Errors / <-w.Events with !ok: fsnotify closed, return.
WatchSourceClosed ==
    /\ wpc = "notify"
    /\ wpc' = "stopped"
    /\ watched' = {}
    /\ events' = 0
    /\ last' = Silent
    /\ UNCHANGED <<loader, control, closed, files, bcast, pc, loc, wpath>>
    /\ UNCHANGED fine

\* case event := <-w.Events with event.Has(fsnotify.Write): b.Load().
WatchEvent ==
    /\ wpc = "notify"
    /\ events > 0
    /\ events' = events - 1
    /\ RunLoad("event", "")
    /\ UNCHANGED <<pc, loc, wpc, wpath, watched>>

\* case <-time.After(2s): hasPath := b.path != "" under the lock.
WatchTimer ==
    /\ wpc \in {"notify", "poll"}
    /\ wpc' = IF path = "" THEN wpc
              ELSE IF wpc = "notify" THEN "timer_notify" ELSE "timer_poll"
    /\ last' = Silent
    /\ UNCHANGED <<loader, control, closed, files, bcast, pc, loc, wpath, watched, events>>
    /\ UNCHANGED fine

\* Mutant: the timer case calls no Load.
WatchTimerLoadMutSkip ==
    /\ wpc \in {"timer_notify", "timer_poll"}
    /\ wpc' = IF wpc = "timer_notify" THEN "notify" ELSE "poll"
    /\ last' = Silent
    /\ UNCHANGED <<loader, control, closed, files, bcast, pc, loc, wpath, watched, events>>
    /\ UNCHANGED fine

\* if hasPath { b.Load() }
WatchTimerLoad ==
    /\ wpc \in {"timer_notify", "timer_poll"}
    /\ wpc' = IF wpc = "timer_notify" THEN "notify" ELSE "poll"
    /\ RunLoad("timer", "")
    /\ UNCHANGED <<pc, loc, wpath, watched, events>>

\* ------------------------------------- Load and SetConfigPath, by statement
\* Mutant: Lock returns at once, whoever holds the mutex.
LockMutNoWait(g) == mu' = g

\* b.mu.Lock() by goroutine g: waits until the mutex is free.
Lock(g) == mu = "" /\ mu' = g

\* Where g calls Load from: the caller directly or at the end of
\* SetConfigPath, watch in the timer case of its polling loop.
CallSite(g) == IF g = "caller" THEN pc \in {"idle", "scp_load"} ELSE wpc = "timer_poll"

\* Load: b.mu.Lock().
LoadLock(g) ==
    /\ lpc[g] = ""
    /\ CallSite(g)
    /\ Lock(g)
    /\ lpc' = [lpc EXCEPT ![g] = "locked"]
    /\ pc' = IF g = "caller" /\ pc = "idle" THEN "load" ELSE pc
    /\ last' = Silent
    /\ UNCHANGED <<loader, control, closed, files, bcast, loc, watcher, lres, args>>

\* Load, from the tests of b.path to the decision: the file is read, the
\* fingerprint compared, the bytes decoded and the callback called. A run
\* that stores nothing has only its deferred Unlock left.
LoadCompute(g) ==
    LET r == Load(path, required, conf, fprint, callback, subs, files) IN
    /\ lpc[g] = "locked"
    /\ lres' = [lres EXCEPT ![g] = r]
    /\ lpc' = [lpc EXCEPT ![g] = IF r.kind \in {"default", "stored", "fallback"}
                                 THEN "conf" ELSE "unlock"]
    /\ last' = Silent
    /\ UNCHANGED <<loader, control, closed, files, bcast, pc, loc, watcher, mu, args>>

\* Load: b.conf = conf.
LoadStoreConf(g) ==
    /\ lpc[g] = "conf"
    /\ conf' = lres[g].conf
    /\ lpc' = [lpc EXCEPT ![g] = "fprint"]
    /\ last' = Silent
    /\ UNCHANGED <<path, required, fprint, subs, callback, control, closed, files, bcast,
                   pc, loc, watcher, mu, lres, args>>

\* Load: b.fprint = fprint.
LoadStoreFprint(g) ==
    /\ lpc[g] = "fprint"
    /\ fprint' = lres[g].fprint
    /\ lpc' = [lpc EXCEPT ![g] = IF lres[g].sent THEN "send" ELSE "unlock"]
    /\ last' = Silent
    /\ UNCHANGED <<path, required, conf, subs, callback, control, closed, files, bcast,
                   pc, loc, watcher, mu, lres, args>>

\* Load: the broadcast loop over b.subs.
LoadBroadcast(g) ==
    /\ lpc[g] = "send"
    /\ subs' = Broadcast(subs, lres[g].conf[1])
    /\ bcast' = lres[g].conf
    /\ lpc' = [lpc EXCEPT ![g] = "unlock"]
    /\ last' = Silent
    /\ UNCHANGED <<path, required, fprint, conf, callback, control, closed, files,
                   pc, loc, watcher, mu, lres, args>>

\* Load: return, with the deferred b.mu.Unlock(); the caller of Load goes on.
LoadUnlock(g) ==
    /\ lpc[g] = "unlock"
    /\ mu' = IF mu = g THEN "" ELSE mu
    /\ lpc' = [lpc EXCEPT ![g] = ""]
    /\ lres' = [lres EXCEPT ![g] = NoLoad]
    /\ IF g = "caller"
       THEN /\ pc' = "idle"
            /\ last' = IF pc = "load"
                       THEN Obs("Load", "Load", "Load", lres[g].err, <<>>, lres[g])
                       ELSE Obs("Load", "SetConfigPath", "SetConfigPath", lres[g].err,
                                <<>>, lres[g])
            /\ UNCHANGED wpc
       ELSE /\ wpc' = "poll"
            /\ last' = Obs("Load", "timer", "", lres[g].err, <<>>, lres[g])
            /\ UNCHANGED pc
    /\ UNCHANGED <<loader, control, closed, files, bcast, loc, wpath, watched, events, args>>

\* SetConfigPath(p, req): b.mu.Lock().
ScpLock(p, req) ==
    /\ pc = "idle"
    /\ ~closed
    /\ Lock("caller")
    /\ args' = <<p, req>>
    /\ pc' = "scp_locked"
    /\ last' = Silent
    /\ UNCHANGED <<loader, control, closed, files, bcast, loc, watcher, lpc, lres>>

\* Mutant: the mutex is released between the two assignments.
ScpCheckMutUnlock ==
    /\ pc = "scp_locked"
    /\ IF path = args[1] /\ required = args[2]
       THEN /\ mu' = ""
            /\ pc' = "idle"
            /\ args' = <<>>
            /\ last' = Obs("SetConfigPath", "", "SetConfigPath", FALSE, <<>>, NoLoad)
            /\ UNCHANGED required
       ELSE /\ required' = args[2]
            /\ pc' = "scp_path"
            /\ last' = Silent
            /\ mu' = ""
            /\ UNCHANGED args
    /\ UNCHANGED <<path, fprint, conf, subs, callback, control, closed, files, bcast, loc,
                   watcher, lpc, lres>>

\* SetConfigPath: the no-op test, which unlocks and returns nil, else
\* b.required = required.
ScpCheck ==
    /\ pc = "scp_locked"
    /\ IF path = args[1] /\ required = args[2]
       THEN /\ mu' = ""
            /\ pc' = "idle"
            /\ args' = <<>>
            /\ last' = Obs("SetConfigPath", "", "SetConfigPath", FALSE, <<>>, NoLoad)
            /\ UNCHANGED required
       ELSE /\ required' = args[2]
            /\ pc' = "scp_path"
            /\ last' = Silent
            /\ UNCHANGED <<mu, args>>
    /\ UNCHANGED <<path, fprint, conf, subs, callback, control, closed, files, bcast, loc,
                   watcher, lpc, lres>>

\* SetConfigPath: b.path = path; b.mu.Unlock().
ScpSetPath ==
    /\ pc = "scp_path"
    /\ path' = args[1]
    /\ mu' = ""
    /\ args' = <<>>
    /\ pc' = "scp_send"
    /\ last' = Obs("SetConfigPath", "", "", FALSE, <<>>, NoLoad)
    /\ UNCHANGED <<required, fprint, conf, subs, callback, control, closed, files, bcast,
                   loc, watcher, lpc, lres>>

\* ------------------------------- the variant with SetConfigPath(path string)
\* if len(configBytes) < 10: the size below which the variants of Load that
\* have the sanity guard take a file for empty or truncated.
MinSize == 10

\* Load(arg) of that variant, the body under b.mu: a non-empty argument
\* becomes b.path; there is no default and no `required`, and a file of fewer
\* than MinSize bytes is an error. `path` is b.path as the run leaves it, `r`
\* what the run computes.
Load1(arg, p, cf, fp, cb, ss, fs) ==
    LET np == IF arg # "" THEN arg ELSE p IN
    [path |-> np,
     r |-> IF np = "" THEN LoadKeep(cf, fp, ss, "no-path", TRUE, "", FALSE, FALSE)
           ELSE IF ~ReadFile(fs, np).ok
           THEN LoadKeep(cf, fp, ss, "read-error", TRUE, "", FALSE, FALSE)
           ELSE IF Len(ReadFile(fs, np).bytes) < MinSize
           THEN LoadKeep(cf, fp, ss, "truncated", TRUE, ReadFile(fs, np).bytes, FALSE, FALSE)
           ELSE LoadRead(cf, fp, cb, ss, ReadFile(fs, np).bytes)]

\* SetConfigPath(p): b.mu.Lock().
SetConfigPath1Lock(p) ==
    /\ pc = "idle"
    /\ ~closed
    /\ Lock("caller")
    /\ args' = <<p>>
    /\ pc' = "scp_locked"
    /\ last' = Silent
    /\ UNCHANGED <<loader, control, closed, files, bcast, loc, watcher, lpc, lres>>

\* SetConfigPath: if b.path == path { return nil }, with the mutex still
\* held; else b.mu.Unlock().
SetConfigPath1Check ==
    /\ pc = "scp_locked"
    /\ IF path = args[1]
       THEN /\ pc' = "idle"
            /\ args' = <<>>
            /\ last' = Obs("SetConfigPath", "", "SetConfigPath", FALSE, <<>>, NoLoad)
            /\ UNCHANGED mu
       ELSE /\ mu' = ""
            /\ pc' = "scp_send"
            /\ last' = Silent
            /\ UNCHANGED args
    /\ UNCHANGED <<loader, control, closed, files, bcast, loc, watcher, lpc, lres>>

\* SetConfigPath: return b.Load(path), as far as Load's b.mu.Lock().
SetConfigPath1Load ==
    /\ pc = "scp_load"
    /\ lpc["caller"] = ""
    /\ Lock("caller")
    /\ lpc' = [lpc EXCEPT !["caller"] = "locked"]
    /\ last' = Silent
    /\ UNCHANGED <<loader, control, closed, files, bcast, pc, loc, watcher, lres, args>>

\* b.Load(p) called directly, as far as Load's b.mu.Lock().
CallLoad1(p) ==
    /\ pc = "idle"
    /\ Lock("caller")
    /\ args' = <<p>>
    /\ pc' = "load"
    /\ lpc' = [lpc EXCEPT !["caller"] = "locked"]
    /\ last' = Silent
    /\ UNCHANGED <<loader, control, closed, files, bcast, loc, watcher, lres>>

\* case <-time.After(10s): b.Load(""), as far as Load's b.mu.Lock().
WatchTimer1 ==
    /\ wpc = "poll"
    /\ lpc["watch"] = ""
    /\ Lock("watch")
    /\ lpc' = [lpc EXCEPT !["watch"] = "locked"]
    /\ last' = Silent
    /\ UNCHANGED <<loader, control, closed, files, bcast, pc, loc, watcher, lres, args>>

\* Load, from its first statement to its return with the deferred Unlock.
Load1Body(g) ==
    LET l == Load1(IF g = "caller" THEN args[1] ELSE "", path, conf, fprint, callback,
                   subs, files)
    IN  /\ lpc[g] = "locked"
        /\ path' = l.path
        /\ conf' = l.r.conf
        /\ fprint' = l.r.fprint
        /\ subs' = l.r.subs
        /\ bcast' = IF l.r.sent THEN l.r.conf ELSE bcast
        /\ mu' = IF mu = g THEN "" ELSE mu
        /\ lpc' = [lpc EXCEPT ![g] = ""]
        /\ IF g = "caller"
           THEN /\ pc' = "idle"
                /\ args' = <<>>
                /\ last' = IF pc = "load"
                           THEN Obs("Load", "Load", "Load", l.r.err, <<>>, l.r)
                           ELSE Obs("Load", "SetConfigPath", "SetConfigPath", l.r.err,
                                    <<>>, l.r)
           ELSE /\ last' = Obs("Load", "timer", "", l.r.err, <<>>, l.r)
                /\ UNCHANGED <<pc, args>>
        /\ UNCHANGED <<required, callback, control, closed, files, loc, watcher, lres>>

\* Config(): conf = b.conf under the lock.
Config1 ==
    /\ pc = "idle"
    /\ mu = ""
    /\ last' = Obs("Config", "", "Config", FALSE, conf, NoLoad)
    /\ UNCHANGED <<loader, control, closed, files, bcast, pc, loc, watcher>>
    /\ UNCHANGED fine

\* ---------------------------------------------------------- specification
\* A step of a public method other than SetConfigPath and Close, or of a
\* subscriber reading its channel, with at most n subscribers.
CallerStep(n) ==
    \/ CallLoad
    \/ ScpSend
    \/ ScpLoad
    \/ \E cb \in Callbacks : RegisterCallback(cb)
    \/ Config
    \/ CfgLoad
    \/ CfgRead
    \/ Subscribe(n)
    \/ SubSend
    \/ \E i \in DOMAIN subs : Recv(i)

\* A step of the watch loop in its polling fallback.
PollStep ==
    \/ WatchStartPoll
    \/ WatchRecv
    \/ WatchTimer
    \/ WatchTimerLoad

\* A step of the watch loop that only the notification mode takes.
NotifyStep ==
    \/ WatchStartNotify
    \/ WatchUpdate
    \/ WatchSourceClosed
    \/ WatchEvent

\* The whole program: every method, both modes of the watch loop, every file.
Next ==
    \/ CallerStep(MaxSubs)
    \/ \E p \in Paths \cup {""}, req \in BOOLEAN : SetConfigPath(p, req)
    \/ CloseSend
    \/ Close
    \/ \E p \in Paths : \E c \in Writable(p) \cup {NoFile} : WriteFile(p, c)
    \/ PollStep
    \/ NotifyStep

Spec == Init /\ [][Next]_vars

\* The reload pipeline: the loader before Close, pointed at no path or at
\* d1/a.yaml, with the watch loop in its polling fallback. Every Load of the
\* program (direct, from SetConfigPath, from Config, from the timer) runs here
\* on every content of the file and with every callback.
InitLoad == Init /\ files["d2/b.yaml"] = "foo: bad\n"

NextLoad ==
    \/ CallerStep(MaxSubsLoad)
    \/ \E p \in {"", "d1/a.yaml"}, req \in BOOLEAN : SetConfigPath(p, req)
    \/ \E c \in Contents \cup {NoFile} : WriteFile("d1/a.yaml", c)
    \/ PollStep

SpecLoad == InitLoad /\ [][NextLoad]_vars

\* Fan-out: up to MaxSubsFan subscribers of one file that is edited between
\* two encodings of Foo="good" and Foo="bad", with the callback that rejects
\* "bad" registered or not, and the triggers of both modes of the watch loop
\* (write events, timer ticks) and direct Loads.
InitFan ==
    /\ Init
    /\ files["d1/a.yaml"] = "foo: good\n"
    /\ files["d2/b.yaml"] = "foo: bad\n"

NextFan ==
    \/ CallLoad
    \/ Subscribe(MaxSubsFan)
    \/ SubSend
    \/ \E i \in DOMAIN subs : Recv(i)
    \/ RegisterCallback("rejectBad")
    \/ SetConfigPath("d1/a.yaml", FALSE)
    \/ ScpSend
    \/ ScpLoad
    \/ \E c \in {"foo: good\n", "{foo: good}\n", "foo: bad\n"} : WriteFile("d1/a.yaml", c)
    \/ PollStep
    \/ WatchStartNotify
    \/ WatchUpdate
    \/ WatchEvent

SpecFan == InitFan /\ [][NextFan]_vars

\* Path changes: the loader is pointed in turn at no path and at two files
\* with different valid contents that are written again with the same content
\* (write events), never edited, while the watch loop runs in either mode.
InitPath ==
    /\ Init
    /\ files["d1/a.yaml"] = "foo: good\n"
    /\ files["d2/b.yaml"] = "foo: bad\n"

NextPath ==
    \/ \E p \in Paths \cup {""} : SetConfigPath(p, FALSE)
    \/ ScpSend
    \/ ScpLoad
    \/ Subscribe(MaxSubsLoad)
    \/ SubSend
    \/ \E i \in DOMAIN subs : Recv(i)
    \/ \E p \in Paths : WriteFile(p, files[p])
    \/ PollStep
    \/ NotifyStep

SpecPath == InitPath /\ [][NextPath]_vars

\* The scheduling of the watch goroutine: it starts, a select whose timer has
\* expired takes the timer case, the Load of a taken case runs, the handling
\* of a received command completes (weak fairness); and a command waiting in
\* b.control is received although the timer case is ready again and again,
\* since select picks at random among the ready cases (strong fairness).
WatchFairness ==
    /\ WF_vars(WatchStartPoll \/ WatchStartNotify)
    /\ WF_vars(WatchTimer)
    /\ WF_vars(WatchTimerLoad)
    /\ WF_vars(WatchUpdate)
    /\ SF_vars(WatchRecv)

\* Propagation: one file, edited between Foo="good" and Foo="bad" or removed,
\* with the callback that rejects "bad" registered or not and one subscriber,
\* while the watch loop runs in either mode under WatchFairness.
InitLive ==
    /\ Init
    /\ files["d1/a.yaml"] = "foo: good\n"
    /\ files["d2/b.yaml"] = "foo: bad\n"

NextLive ==
    \/ SetConfigPath("d1/a.yaml", FALSE)
    \/ ScpSend
    \/ ScpLoad
    \/ RegisterCallback("rejectBad")
    \/ Subscribe(MaxSubsLoad)
    \/ SubSend
    \/ \E i \in DOMAIN subs : Recv(i)
    \/ \E c \in {"foo: good\n", "foo: bad\n", NoFile} : WriteFile("d1/a.yaml", c)
    \/ PollStep
    \/ NotifyStep

SpecLive == InitLive /\ [][NextLive]_vars /\ WatchFairness

\* Shutdown: the loader is pointed at one file, the file is written, and Close
\* is called once, at any moment, while the watch loop runs in either mode
\* under WatchFairness.
InitClose ==
    /\ Init
    /\ files["d1/a.yaml"] = "foo: good\n"
    /\ files["d2/b.yaml"] = "foo: bad\n"

NextClose ==
    \/ SetConfigPath("d1/a.yaml", FALSE)
    \/ ScpSend
    \/ ScpLoad
    \/ CallLoad
    \/ CloseSend
    \/ Close
    \/ \E c \in {"foo: good\n", "foo: bad\n"} : WriteFile("d1/a.yaml", c)
    \/ PollStep
    \/ NotifyStep

SpecClose == InitClose /\ [][NextClose]_vars /\ WatchFairness

\* The mutex: Load and SetConfigPath run statement by statement, by the
\* caller and by the timer case of the polling loop at the same time, on one
\* file that is edited or removed, with one subscriber. The critical sections
\* of Subscribe and of the timer case, taken as one step each, wait for the
\* mutex too.
InitMutex ==
    /\ Init
    /\ files["d1/a.yaml"] = "foo: good\n"
    /\ files["d2/b.yaml"] = "foo: bad\n"

NextMutex ==
    \/ \E p \in {"", "d1/a.yaml"}, req \in BOOLEAN : ScpLock(p, req)
    \/ ScpCheck
    \/ ScpSetPath
    \/ ScpSend
    \/ \E g \in Goroutines : LoadLock(g)
    \/ \E g \in Goroutines : LoadCompute(g)
    \/ \E g \in Goroutines : LoadStoreConf(g)
    \/ \E g \in Goroutines : LoadStoreFprint(g)
    \/ \E g \in Goroutines : LoadBroadcast(g)
    \/ \E g \in Goroutines : LoadUnlock(g)
    \/ mu = "" /\ Subscribe(MaxSubsLoad)
    \/ SubSend
    \/ \E i \in DOMAIN subs : Recv(i)
    \/ \E c \in {"foo: good\n", "foo: bad\n", NoFile} : WriteFile("d1/a.yaml", c)
    \/ WatchStartPoll
    \/ WatchRecv
    \/ mu = "" /\ WatchTimer

SpecMutex == InitMutex /\ [][NextMutex]_vars

\* No path: the loader is never pointed at a file. Loads are called directly,
\* by Config and by SetConfigPath switching `required`, with every callback
\* and up to MaxSubsFan subscribers; the polling loop only drains b.control.
InitDefault ==
    /\ Init
    /\ files["d1/a.yaml"] = "foo: good\n"
    /\ files["d2/b.yaml"] = "foo: bad\n"

NextDefault ==
    \/ CallLoad
    \/ \E cb \in Callbacks : RegisterCallback(cb)
    \/ \E req \in BOOLEAN : SetConfigPath("", req)
    \/ ScpSend
    \/ ScpLoad
    \/ Config
    \/ CfgLoad
    \/ CfgRead
    \/ Subscribe(MaxSubsFan)
    \/ SubSend
    \/ \E i \in DOMAIN subs : Recv(i)
    \/ WatchStartPoll
    \/ WatchRecv

SpecDefault == InitDefault /\ [][NextDefault]_vars

\* Re-pointing: SetConfigPath is called with every path and both values of
\* `required`, before and after the watch loop has started in notification
\* mode, while the two files, never edited, are written again with the same
\* content.
InitWatch ==
    /\ Init
    /\ files["d1/a.yaml"] = "foo: good\n"
    /\ files["d2/b.yaml"] = "foo: bad\n"

NextWatch ==
    \/ \E p \in Paths \cup {""}, req \in BOOLEAN : SetConfigPath(p, req)
    \/ ScpSend
    \/ ScpLoad
    \/ \E p \in Paths : WriteFile(p, files[p])
    \/ WatchStartNotify
    \/ WatchRecv
    \/ WatchUpdate
    \/ WatchEvent
    \/ WatchTimer
    \/ WatchTimerLoad

SpecWatch == InitWatch /\ [][NextWatch]_vars

\* The writers: every public method but Close and every step of the watch
\* loop in both modes, on one file edited between Foo="good" and Foo="bad",
\* with up to MaxSubsFan subscribers.
InitWriter ==
    /\ Init
    /\ files["d1/a.yaml"] = "foo: good\n"
    /\ files["d2/b.yaml"] = "foo: bad\n"

NextWriter ==
    \/ CallLoad
    \/ SetConfigPath("d1/a.yaml", FALSE)
    \/ ScpSend
    \/ ScpLoad
    \/ RegisterCallback("rejectBad")
    \/ Config
    \/ CfgLoad
    \/ CfgRead
    \/ Subscribe(MaxSubsFan)
    \/ SubSend
    \/ \E i \in DOMAIN subs : Recv(i)
    \/ \E c \in {"foo: good\n", "foo: bad\n"} : WriteFile("d1/a.yaml", c)
    \/ PollStep
    \/ NotifyStep

SpecWriter == InitWriter /\ [][NextWriter]_vars

\* Subscribing while the watch loop reloads: one file edited between
\* Foo="good" and Foo="bad", one subscriber, the watch loop running in either
\* mode and never stopping, under WatchFairness; moreover a Subscribe whose
\* send can proceed does proceed (the goroutine is runnable and the scheduler
\* runs it).
InitSub ==
    /\ Init
    /\ files["d1/a.yaml"] = "foo: good\n"
    /\ files["d2/b.yaml"] = "foo: bad\n"

NextSub ==
    \/ SetConfigPath("d1/a.yaml", FALSE)
    \/ ScpSend
    \/ ScpLoad
    \/ Subscribe(MaxSubsLoad)
    \/ SubSend
    \/ \E i \in DOMAIN subs : Recv(i)
    \/ \E c \in {"foo: good\n", "foo: bad\n"} : WriteFile("d1/a.yaml", c)
    \/ PollStep
    \/ WatchStartNotify
    \/ WatchUpdate
    \/ WatchEvent

SpecSub == InitSub /\ [][NextSub]_vars /\ WatchFairness /\ WF_vars(SubSend)

\* The control channel: SetConfigPath is called again and again with the
\* same file and alternating `required`, and Close once, while the file is
\* written again with the same content and the watch loop runs in either mode
\* and, in notification mode, may find the notification source closed and
\* return. Under WatchFairness, and with a caller that
\* goes on whenever its next statement can run.
InitControl ==
    /\ Init
    /\ files["d1/a.yaml"] = "foo: good\n"
    /\ files["d2/b.yaml"] = "foo: bad\n"

NextControl ==
    \/ \E req \in BOOLEAN : SetConfigPath("d1/a.yaml", req)
    \/ ScpSend
    \/ ScpLoad
    \/ CloseSend
    \/ Close
    \/ WriteFile("d1/a.yaml", "foo: good\n")
    \/ PollStep
    \/ NotifyStep

SpecControl ==
    /\ InitControl /\ [][NextControl]_vars
    /\ WatchFairness
    /\ WF_vars(ScpSend) /\ WF_vars(ScpLoad) /\ WF_vars(Close)

\* The variant with SetConfigPath(path string): a loader made with no path,
\* pointed at the two files in turn and again at the current one, with direct
\* Loads, Config, edits of the first file and the polling loop, all taking
\* the mutex.
InitOne ==
    /\ Init
    /\ files["d1/a.yaml"] = "foo: good\n"
    /\ files["d2/b.yaml"] = "foo: bad\n"

NextOne ==
    \/ \E p \in Paths : SetConfigPath1Lock(p)
    \/ SetConfigPath1Check
    \/ ScpSend
    \/ SetConfigPath1Load
    \/ \E p \in Paths \cup {""} : CallLoad1(p)
    \/ \E g \in Goroutines : Load1Body(g)
    \/ Config1
    \/ \E c \in {"foo: good\n", "{foo: good}\n", "foo: bad\n"} : WriteFile("d1/a.yaml", c)
    \/ WatchStartPoll
    \/ lpc["watch"] = "" /\ WatchRecv
    \/ WatchTimer1

SpecOne == InitOne /\ [][NextOne]_vars

\* ------------------------------------------------------------------ claims
\* The step taken is one run of Load.
LoadRan == last'.op = "Load"

\* os.ReadFile(b.path) succeeds / the bytes it returns.
CanRead == path # "" /\ ReadFile(files, path).ok
BytesRead == ReadFile(files, path).bytes

\* The callback cb, if any, accepts v / the value it makes of v.
Accepts(cb, v) == cb = "nil" \/ Callback(cb, v).ok
ResultOf(cb, v) == IF cb = "nil" THEN v ELSE Callback(cb, v).val

\* The step changes neither the stored snapshot nor any subscriber channel.
SnapshotKept == conf' = conf /\ fprint' = fprint /\ subs' = subs

\* The step offers v to every registered channel: an empty one now holds v, a
\* full one keeps what it held.
Delivered(v) ==
    /\ DOMAIN subs' = DOMAIN subs
    /\ \A i \in DOMAIN subs : subs'[i] = IF subs[i] = <<>> THEN <<v>> ELSE subs[i]

\* Load run once more on the state the step leaves.
LoadAgain == Load(path', required', conf', fprint', callback', subs', files')

\* C1: a Load on a non-empty path that reads bytes whose fingerprint is the
\* stored one returns nil, leaves the stored config, the fingerprint and every
\* subscriber channel as they were, and calls neither yaml.Unmarshal nor the
\* callback; and after any Load that read the file, a second Load over the same
\* content sends nothing.
C1_Step ==
    LoadRan /\ CanRead =>
        /\ Sha256(BytesRead) = fprint =>
              /\ SnapshotKept
              /\ ~last'.err /\ ~last'.r.decoded /\ ~last'.r.cbCalled /\ ~last'.r.sent
        /\ ~LoadAgain.sent /\ LoadAgain.subs = subs'

C1_IdempotentReload == [][C1_Step]_vars

\* C1 witness: a timer-triggered Load found the file unchanged while a
\* subscriber with an empty channel was registered, and nothing was delivered.
C1_Witness ==
    /\ last.op = "Load" /\ last.by = "timer" /\ last.r.kind = "unchanged"
    /\ conf # <<>> /\ Len(subs) >= 1 /\ subs[1] = <<>>

\* C2 as stated: a Load, run while a registered channel is empty, puts a value
\* into a channel if and only if the config it leaves stored differs from the
\* value last broadcast.
C2_Original_Step ==
    LoadRan /\ (\E i \in DOMAIN subs : subs[i] = <<>>) =>
        (subs' # subs <=> (conf' # <<>> /\ conf' # bcast))

C2_Original == [][C2_Original_Step]_vars

\* C2 amended: a Load runs its broadcast loop if and only if it takes the
\* empty-path branch (path "", not required) and the default passes the
\* callback, or it reads content whose fingerprint differs from the stored one
\* and that decodes and passes the callback. When it does, every registered
\* channel that was empty holds the newly stored value; when it does not, no
\* channel changes.
C2_Sends ==
    \/ path = "" /\ ~required /\ Accepts(callback, zero)
    \/ /\ CanRead
       /\ Sha256(BytesRead) # fprint
       /\ Unmarshal(BytesRead).ok
       /\ Accepts(callback, Unmarshal(BytesRead).val)

C2_Step ==
    LoadRan =>
        /\ last'.r.sent <=> C2_Sends
        /\ IF C2_Sends
           THEN /\ conf' # <<>> /\ Delivered(conf'[1])
                /\ last'.r.took = Cardinality({i \in DOMAIN subs : subs[i] = <<>>})
           ELSE subs' = subs /\ last'.r.took = 0

C2_BroadcastRule == [][C2_Step]_vars

\* C2 witness: a Load has read content with a new fingerprint, stored it and
\* put it into a subscriber's empty channel.
C2_Witness ==
    /\ last.op = "Load" /\ last.r.kind = "stored" /\ last.r.took >= 1
    /\ Len(subs) >= 1 /\ subs[1] = conf /\ bcast = conf

\* C3: a Load that returns an error leaves the stored config, the stored
\* fingerprint and every subscriber channel exactly as they were.
C3_Step == LoadRan /\ last'.err => SnapshotKept /\ ~last'.r.sent

C3_ErrorKeepsSnapshot == [][C3_Step]_vars

\* C3 witness: a timer-triggered Load failed to decode the file while a config
\* was stored and a subscriber was waiting on an empty channel.
C3_Witness ==
    /\ last.op = "Load" /\ last.by = "timer" /\ last.err
    /\ last.r.kind = "decode-error"
    /\ conf # <<>> /\ Len(subs) >= 1 /\ subs[1] = <<>>

\* C4: when the callback rejects content just read, Load returns the error,
\* the stored config, the stored fingerprint and the channels are unchanged,
\* the fingerprint of the rejected content is not the stored one, and a Load
\* run again on the same content calls the callback again and is rejected
\* again; Config() keeps returning the stored config.
C4_Rejects ==
    /\ CanRead
    /\ Sha256(BytesRead) # fprint
    /\ Unmarshal(BytesRead).ok
    /\ ~Accepts(callback, Unmarshal(BytesRead).val)

C4_Step ==
    /\ LoadRan /\ C4_Rejects =>
          /\ last'.err /\ last'.r.cbCalled
          /\ SnapshotKept
          /\ fprint' # Sha256(BytesRead)
          /\ LoadAgain.err /\ LoadAgain.cbCalled /\ LoadAgain.kind = "rejected"
    /\ last'.ret = "Config" /\ conf # <<>> => last'.val = conf /\ SnapshotKept

C4_RejectionRetried == [][C4_Step]_vars

\* C4 witness: Foo="good" is stored, the file now holds Foo="bad" and the
\* callback that rejects "bad" has just rejected it.
C4_Witness ==
    /\ last.op = "Load" /\ last.r.kind = "rejected" /\ callback = "rejectBad"
    /\ conf = <<[Foo |-> "good"]>> /\ files[path] = "foo: bad\n"

\* C5: with path "" and required true every Load returns an error and leaves
\* the stored config, the fingerprint and the channels as they were; and a
\* Config() that returns while nothing is stored returns nil.
C5_Step ==
    /\ LoadRan /\ path = "" /\ required => last'.err /\ SnapshotKept
    /\ last'.ret = "Config" /\ path = "" /\ required /\ conf = <<>> => last'.val = <<>>

C5_NoPathRequired == [][C5_Step]_vars

\* C5 witness: Config() has run its Load with no path and required set, and
\* returned nil.
C5_Witness ==
    /\ last.op = "CfgRead" /\ last.ret = "Config" /\ last.val = <<>>
    /\ path = "" /\ required

\* C6 as stated: with path "" and required false no Load returns an error,
\* whatever callback is registered, and Config() returns a config.
C6_Original_Step ==
    /\ LoadRan /\ path = "" /\ ~required => ~last'.err
    /\ last'.ret = "Config" /\ path = "" /\ ~required => last'.val # <<>>

C6_Original == [][C6_Original_Step]_vars

\* C6 amended: with path "" and required false a Load returns an error exactly
\* when a callback is registered that rejects the zero value, and then leaves
\* the snapshot as it was; otherwise it stores the callback's result on the
\* zero value (the zero value itself with no callback) under the fingerprint of
\* its encoding. A Config() that returns while the pair is ("", false) and the
\* callback accepts the zero value returns a config.
C6_Step ==
    /\ LoadRan /\ path = "" /\ ~required =>
          IF Accepts(callback, zero)
          THEN /\ ~last'.err
               /\ conf' = <<ResultOf(callback, zero)>>
               /\ fprint' = Sha256(Marshal(ResultOf(callback, zero)))
          ELSE last'.err /\ SnapshotKept
    /\ last'.ret = "Config" /\ path = "" /\ ~required /\ Accepts(callback, zero) =>
          last'.val # <<>> /\ last'.val = conf'

C6_DefaultWhenNoPath == [][C6_Step]_vars

\* C6 witness: Config() on a fresh loader with the defaulting callback has
\* returned Foo="default".
C6_Witness ==
    /\ last.op = "CfgRead" /\ last.ret = "Config"
    /\ last.val = <<[Foo |-> "default"]>>
    /\ path = "" /\ ~required /\ callback = "setDefault"

\* C7: with a non-empty path whose file cannot be read, required true and no
\* config stored, Load returns an error (which SetConfigPath returns to its
\* caller when the Load is its own), nothing is stored, the same holds for the
\* next attempt, and a Config() that returns then returns nil.
C7_Case == path # "" /\ ~ReadFile(files, path).ok /\ required /\ conf = <<>>

C7_Step ==
    /\ LoadRan /\ C7_Case =>
          /\ last'.err
          /\ SnapshotKept /\ conf' = <<>>
          /\ last'.by = "SetConfigPath" => last'.ret = "SetConfigPath"
          /\ LoadAgain.err /\ LoadAgain.conf = <<>>
    /\ last'.ret = "Config" /\ C7_Case => last'.val = <<>>

C7_MissingRequired == [][C7_Step]_vars

\* C7 witness: SetConfigPath to a missing file with required true has returned
\* the error of its Load, and no config is stored.
C7_Witness ==
    /\ last.op = "Load" /\ last.by = "SetConfigPath" /\ last.ret = "SetConfigPath"
    /\ last.err /\ last.r.kind = "read-error"
    /\ conf = <<>> /\ files[path] = NoFile /\ required

\* C8 as stated: with a non-empty path whose file cannot be read, required
\* true and a config stored, a direct Load returns an error and the stored
\* config stays.
C8_Original_Step ==
    LoadRan /\ last'.by = "Load"
      /\ path # "" /\ ~ReadFile(files, path).ok /\ required /\ conf # <<>>
    => last'.err /\ conf' = conf

C8_Original == [][C8_Original_Step]_vars

\* C9 as stated: with a non-empty path whose file cannot be read and required
\* false, Load returns nil, whatever callback is registered.
C9_Original_Step ==
    LoadRan /\ path # "" /\ ~ReadFile(files, path).ok /\ ~required => ~last'.err

C9_Original == [][C9_Original_Step]_vars

\* C9 amended: with a non-empty path whose file cannot be read and required
\* false, a Load with a config stored returns nil and keeps the snapshot; with
\* none stored it stores the callback's result on the zero value (the zero
\* value with no callback) under the fingerprint of its encoding and returns
\* nil, unless the callback rejects the zero value: then it returns that error
\* and nothing is stored.
C9_Step ==
    LoadRan /\ path # "" /\ ~ReadFile(files, path).ok /\ ~required =>
        IF conf # <<>> THEN ~last'.err /\ SnapshotKept
        ELSE IF Accepts(callback, zero)
        THEN /\ ~last'.err
             /\ conf' = <<ResultOf(callback, zero)>>
             /\ fprint' = Sha256(Marshal(ResultOf(callback, zero)))
        ELSE last'.err /\ SnapshotKept

C9_MissingNotRequired == [][C9_Step]_vars

\* C9 witness: the file is missing, required is false, and a Load has stored
\* the default made by the defaulting callback.
C9_Witness ==
    /\ last.op = "Load" /\ last.r.kind = "fallback" /\ ~last.err
    /\ conf = <<[Foo |-> "default"]>> /\ fprint = Sha256("foo: default\n")
    /\ files[path] = NoFile /\ ~required

\* C10: Subscribe appends one new, empty channel to b.subs; a channel never
\* holds more than one value; every later broadcast offers its value to every
\* registered channel; Subscribe returns from its critical section, with the
\* channel empty, exactly when no config is stored, and otherwise returns after
\* putting the config it read, which is still the stored one, into the channel.
C10_Step ==
    /\ last'.op = "Subscribe" =>
          /\ subs' = Append(subs, <<>>)
          /\ (last'.ret = "Subscribe") <=> (conf = <<>>)
          /\ conf' = conf /\ fprint' = fprint
    /\ last'.op = "SubSend" =>
          /\ last'.ret = "Subscribe"
          /\ conf # <<>> /\ subs'[Len(subs')] = conf /\ last'.val = conf
          /\ \A i \in 1..(Len(subs) - 1) : subs'[i] = subs[i]
    /\ LoadRan /\ last'.r.sent => Delivered(conf'[1])
    /\ \A i \in DOMAIN subs' : Len(subs'[i]) <= 1
    /\ Len(subs') >= Len(subs)

C10_Subscribe == [][C10_Step]_vars

\* C10 witness: Subscribe has returned a channel holding the stored config.
C10_Witness ==
    /\ last.op = "SubSend" /\ last.ret = "Subscribe"
    /\ conf # <<>> /\ subs[Len(subs)] = conf

\* A subscriber reads channel i in this step.
Reads(i) == i \in DOMAIN subs /\ i \in DOMAIN subs' /\ subs[i] # <<>> /\ subs'[i] = <<>>

\* C11 as stated: whenever a subscriber reads its channel, the value it reads
\* is the config stored at that moment, however many accepted reloads it let
\* pass without reading.
C11_Original_Step == \A i \in DOMAIN subs : Reads(i) => subs[i] = conf

C11_Original == [][C11_Original_Step]_vars

\* C14: a SetConfigPath whose (path, required) pair is the current one returns
\* nil at once: no field of the loader changes, nothing is sent to the control
\* channel, no Load is started and no subscriber channel changes; a call with
\* another pair goes on to send the command.
C14_Step ==
    last'.op = "SetConfigPath" =>
        IF path' = path /\ required' = required
        THEN /\ last'.ret = "SetConfigPath" /\ ~last'.err
             /\ pc' = "idle"
             /\ control' = control
             /\ UNCHANGED <<fprint, conf, subs, callback, bcast, files, watcher>>
        ELSE /\ last'.ret = "" /\ pc' = "scp_send"
             /\ UNCHANGED <<fprint, conf, subs, control>>

C14_SamePairNoOp == [][C14_Step]_vars

\* C14 witness: with a file loaded and a subscriber waiting on an empty
\* channel, SetConfigPath with the current pair has returned and delivered
\* nothing.
C14_Witness ==
    /\ last.op = "SetConfigPath" /\ last.ret = "SetConfigPath"
    /\ path # "" /\ fprint = Sha256(files[path])
    /\ Len(subs) >= 1 /\ subs[1] = <<>> /\ pc = "idle"

\* C17 as stated: Config() calls Load exactly when no config is stored and a
\* path is set; otherwise it returns at once.
C17_Original_Step ==
    last'.op = "Config" => (last'.ret = "" <=> (conf = <<>> /\ path # ""))

C17_Original == [][C17_Original_Step]_vars

\* C17 amended: Config() returns the stored config at once, running no Load,
\* when one is stored; when none is stored it runs one Load, whether or not a
\* path is set, and then returns what is stored when it takes the lock again.
C17_Step ==
    /\ last'.op = "Config" =>
          IF conf # <<>>
          THEN /\ last'.ret = "Config" /\ last'.val = conf /\ pc' = "idle"
               /\ UNCHANGED <<fprint, conf, subs, bcast>>
          ELSE /\ last'.ret = "" /\ pc' = "cfg_load"
               /\ UNCHANGED <<fprint, conf, subs, bcast>>
    /\ LoadRan /\ last'.by = "Config" => pc = "cfg_load" /\ pc' = "cfg_read"
    /\ last'.op = "CfgRead" =>
          /\ pc = "cfg_read" /\ pc' = "idle"
          /\ last'.ret = "Config" /\ last'.val = conf
          /\ UNCHANGED <<fprint, conf, subs, bcast>>

C17_ConfigLazyLoad == [][C17_Step]_vars

\* C17 witness: with no path set and none required, Config() has run its Load
\* and returned the zero value.
C17_Witness ==
    /\ last.op = "CfgRead" /\ last.ret = "Config" /\ last.val = <<zero>>
    /\ path = "" /\ ~required /\ callback = "nil"

\* C12: the values a subscriber reads are a subsequence, in acceptance order,
\* of the values the loader accepted. Step by step: a channel holds at most one
\* value; its content changes only by a read that empties it or by a value
\* entering it while it is empty, never by a value replacing another; and the
\* value that enters, whether sent by a broadcast or by Subscribe itself, is
\* the config stored at that moment, that is the latest one accepted. Values
\* thus enter, and are read, in the order of their acceptance.
C12_Step ==
    /\ Len(subs') >= Len(subs)
    /\ \A i \in DOMAIN subs' :
          LET old == IF i \in DOMAIN subs THEN subs[i] ELSE <<>> IN
          /\ Len(subs'[i]) <= 1
          /\ subs'[i] # old =>
                \/ old = <<>> /\ subs'[i] = conf'
                \/ old # <<>> /\ subs'[i] = <<>>

C12_SubscriberOrder == [][C12_Step]_vars

\* C12 witness: between Subscribe's critical section and its send, a Load has
\* accepted a newer config and broadcast it into the new channel, so the
\* older value Subscribe read cannot enter before it.
C12_Witness ==
    /\ pc = "sub_send" /\ loc # <<>>
    /\ subs[Len(subs)] # <<>> /\ subs[Len(subs)] # loc /\ subs[Len(subs)] = conf

\* The content c decodes and the callback accepts it / the config made of it.
Valid(c) == c # NoFile /\ Unmarshal(c).ok /\ Accepts(callback, Unmarshal(c).val)
ConfigOf(c) == ResultOf(callback, Unmarshal(c).val)

\* The step is a write that changes the content of the loader's file while a
\* Load would change nothing, every registered channel is empty and no call is
\* in progress.
EditsFile ==
    /\ path # "" /\ files'[path] # files[path] /\ Valid(files'[path])
    /\ pc = "idle" /\ Len(subs) >= 1 /\ \A i \in DOMAIN subs : subs[i] = <<>>
    /\ LET r == Load(path, required, conf, fprint, callback, subs, files)
       IN  ~r.sent /\ r.conf = conf /\ r.fprint = fprint

\* The Load that the next trigger runs after the step.
NextLoadResult == Load(path', required', conf', fprint', callback', subs', files')

\* C13 as stated: after one edit of the file to new valid content, the next
\* trigger delivers the config decoded from it to every subscriber.
C13_Original_Step ==
    EditsFile =>
        /\ NextLoadResult.sent
        /\ \A i \in DOMAIN subs : NextLoadResult.subs[i] = <<ConfigOf(files'[path])>>

C13_Original == [][C13_Original_Step]_vars

\* C13 amended: the same when the fingerprint of the new content differs from
\* the stored one. Then the Load of the next trigger, whichever it is, puts
\* the one config decoded from the new content into every empty channel, and
\* every Load that finds the stored fingerprint again, whoever triggers it,
\* changes no channel. When the new content has the stored fingerprint no
\* Load delivers anything.
C13_Step ==
    /\ EditsFile =>
          IF Sha256(files'[path]) # fprint
          THEN /\ NextLoadResult.sent
               /\ NextLoadResult.took = Len(subs)
               /\ \A i \in DOMAIN subs : NextLoadResult.subs[i] = <<ConfigOf(files'[path])>>
          ELSE ~NextLoadResult.sent /\ NextLoadResult.subs = subs'
    /\ LoadRan /\ CanRead /\ Valid(BytesRead) =>
          IF Sha256(BytesRead) # fprint
          THEN /\ conf' = <<ConfigOf(BytesRead)>>
               /\ Delivered(ConfigOf(BytesRead))
               /\ fprint' = Sha256(BytesRead)
               /\ ~LoadAgain.sent /\ LoadAgain.subs = subs'
          ELSE subs' = subs /\ ~last'.r.sent

C13_FanOut == [][C13_Step]_vars

\* C13 witness: a write event has triggered a Load that put the same newly
\* decoded config into the empty channels of two subscribers.
C13_Witness ==
    /\ last.op = "Load" /\ last.by = "event" /\ last.r.kind = "stored"
    /\ last.r.took >= 2 /\ Len(subs) >= 2
    /\ subs[1] = conf /\ subs[2] = conf

\* The step is the synchronous Load of a SetConfigPath that set a path, run
\* while a subscriber is registered.
ScpLoads == LoadRan /\ last'.by = "SetConfigPath" /\ path # "" /\ Len(subs) >= 1

\* C15 as stated: where every SetConfigPath to a file finds a stored
\* fingerprint that differs from the file's, it is the synchronous Load of
\* SetConfigPath that delivers the file's config to the empty channels.
C15_Original_Step ==
    ScpLoads => last'.r.sent /\ Delivered(ConfigOf(BytesRead))

C15_Original == [][C15_Original_Step]_vars

\* C15 amended: a SetConfigPath that changes the path to a valid file whose
\* fingerprint is not the stored one leads to one delivery of the file's
\* config to the channels then empty, made by the first Load that reads the
\* file after the change: the synchronous Load, or a timer- or event-triggered
\* Load of the watch loop that runs before it. Every other Load of the
\* unchanged file changes no channel, the watch loop's handling of "update"
\* changes none either, and when the synchronous Load has returned the stored
\* fingerprint is the file's.
C15_Step ==
    /\ last'.op = "SetConfigPath" /\ path' # path /\ path' # "" =>
          /\ Valid(files[path']) /\ Sha256(files[path']) # fprint
          /\ pc' = "scp_send"
    /\ LoadRan /\ path # "" =>
          IF Sha256(BytesRead) # fprint
          THEN /\ last'.r.sent /\ Delivered(ConfigOf(BytesRead))
               /\ conf' = <<ConfigOf(BytesRead)>> /\ fprint' = Sha256(BytesRead)
               /\ ~LoadAgain.sent /\ LoadAgain.subs = subs'
          ELSE ~last'.r.sent /\ SnapshotKept
    /\ pc = "scp_load" /\ pc' = "idle" =>
          /\ LoadRan /\ last'.by = "SetConfigPath" /\ last'.ret = "SetConfigPath"
          /\ path # "" => fprint' = Sha256(files[path]) /\ conf' = <<ConfigOf(files[path])>>
    /\ (wpc = "update" /\ wpc' = "notify") \/ control' # control => SnapshotKept

C15_PathChangeDelivery == [][C15_Step]_vars

\* C15 witness: the path was switched from one file to the other and the
\* synchronous Load has put the new file's config into a subscriber's empty
\* channel, before the watch loop has handled the command.
C15_Witness ==
    /\ last.op = "Load" /\ last.by = "SetConfigPath" /\ last.r.kind = "stored"
    /\ last.r.took >= 1 /\ subs[1] = conf
    /\ path = "d2/b.yaml" /\ wpath = "d1/a.yaml" /\ control = <<"update">>

\* The contents and callbacks of SpecLive, paired when the content decodes
\* and the callback accepts it.
LivePairs ==
    {pr \in {"foo: good\n", "foo: bad\n"} \X {"nil", "rejectBad"} :
        Unmarshal(pr[1]).ok /\ Accepts(pr[2], Unmarshal(pr[1]).val)}

\* The watch loop runs on d1/a.yaml, which holds content c, with callback cb.
Settled(c, cb) ==
    /\ path = "d1/a.yaml" /\ files["d1/a.yaml"] = c /\ callback = cb
    /\ wpc # "stopped"

\* If from some moment on the watch loop runs and the file holds the same
\* valid content, then from some moment on the stored config is the one
\* decoded from it, under its fingerprint.
C19_Propagates ==
    \A pr \in LivePairs :
        <>[]Settled(pr[1], pr[2]) =>
            <>[](conf = <<ResultOf(pr[2], Unmarshal(pr[1]).val)>> /\ fprint = Sha256(pr[1]))

\* C19 as stated: the stored config eventually is the one decoded from the
\* new content, and after an edit to valid content the Load of the next
\* trigger puts that config into the subscriber's empty channel.
C19_Original_Step ==
    EditsFile => NextLoadResult.sent /\ NextLoadResult.subs[1] = <<ConfigOf(files'[path])>>

C19_Original == C19_Propagates /\ [][C19_Original_Step]_vars

\* C19 amended: the stored config eventually is the one decoded from the new
\* content; a subscriber with an empty channel receives it, once, when the
\* fingerprint of the new content differs from the stored one: the first
\* timer- or event-triggered Load after the edit delivers it and the Loads
\* that follow deliver nothing; with the stored fingerprint nothing is sent.
C19_Step ==
    /\ EditsFile =>
          IF Sha256(files'[path]) # fprint
          THEN NextLoadResult.sent /\ NextLoadResult.subs[1] = <<ConfigOf(files'[path])>>
          ELSE ~NextLoadResult.sent
    /\ LoadRan /\ last'.by \in {"timer", "event"} /\ CanRead /\ Valid(BytesRead) =>
          IF Sha256(BytesRead) # fprint
          THEN /\ Delivered(ConfigOf(BytesRead))
               /\ ~LoadAgain.sent /\ LoadAgain.subs = subs'
          ELSE subs' = subs

C19_EventualPropagation == C19_Propagates /\ [][C19_Step]_vars

\* C19 witness: in notification mode the timer case has run a Load that
\* stored the edited file's config and put it into the subscriber's channel.
C19_Witness ==
    /\ last.op = "Load" /\ last.by = "timer" /\ last.r.kind = "stored"
    /\ wpc = "notify" /\ last.r.took >= 1 /\ subs[1] = conf
    /\ files[path] = "foo: bad\n" /\ conf = <<[Foo |-> "bad"]>>

\* C20: once Close has sent "done", the watch loop eventually stops, in
\* either mode; a stopped watch loop stays stopped, watches no directory and
\* runs no Load.
C20_Step ==
    wpc = "stopped" =>
        /\ wpc' = "stopped" /\ watched' = {} /\ wpath' = wpath
        /\ ~(LoadRan /\ last'.by \in {"timer", "event"})

C20_Shutdown ==
    /\ (pc = "close" \/ closed) ~> (wpc = "stopped")
    /\ [][C20_Step]_vars

\* C20 witness: Close has returned and the watch loop, which was watching the
\* file's directory, has received "done" and stopped.
C20_Witness ==
    /\ closed /\ control = <<>> /\ wpc = "stopped"
    /\ path = "d1/a.yaml" /\ wpath = "d1/a.yaml" /\ watched = {}

\* Goroutine g reads the loader's fields in this step of its Load.
LoadReads(g) == lpc[g] = "locked" /\ lpc'[g] # "locked"

\* C16: SetConfigPath with a changed pair writes b.required and b.path while
\* it holds the mutex, so no Load reads the fields between the two
\* assignments; it then sends one "update", the only command sent, runs one
\* Load and returns when that Load returns, with that Load's error.
C16_Step ==
    /\ \A g \in Goroutines : LoadReads(g) => pc \notin {"scp_locked", "scp_path"}
    /\ pc \in {"scp_locked", "scp_path"} => mu = "caller"
    /\ pc = "scp_path" /\ pc' # pc =>
          /\ pc' = "scp_send" /\ mu' = ""
          /\ path' = args[1] /\ required' = args[2] /\ required' = required
    /\ pc = "scp_send" /\ pc' # pc =>
          pc' = "scp_load" /\ control' = Append(control, "update")
    /\ Len(control') > Len(control) => pc = "scp_send"
    /\ pc = "scp_load" /\ pc' # pc =>
          /\ pc' = "idle" /\ lpc["caller"] = "unlock"
          /\ last'.op = "Load" /\ last'.by = "SetConfigPath"
          /\ last'.ret = "SetConfigPath"
          /\ last'.r = lres["caller"] /\ last'.err = lres["caller"].err

C16_SetConfigPathAtomic == [][C16_Step]_vars

\* C16 witness: SetConfigPath(d1/a.yaml, true) has returned nil after its Load
\* stored the file's config, its one "update" still waiting in b.control.
C16_Witness ==
    /\ last.op = "Load" /\ last.by = "SetConfigPath" /\ last.ret = "SetConfigPath"
    /\ ~last.err /\ last.r.kind = "stored"
    /\ path = "d1/a.yaml" /\ required /\ control = <<"update">> /\ pc = "idle"
    /\ mu = ""

\* The bytes a stored fingerprint can be the digest of: a file's content or
\* the encoding of a default.
KnownBytes == Contents \cup {Marshal(zero), Marshal([Foo |-> "default"])}

\* cf and fp were stored by one run of Load: nothing, or the config made
\* from some bytes together with the fingerprint of those bytes.
PairConsistent(cf, fp) ==
    \/ cf = <<>> /\ fp = ""
    \/ \E b \in KnownBytes, cb \in Callbacks :
          /\ fp = Sha256(b)
          /\ Unmarshal(b).ok /\ Accepts(cb, Unmarshal(b).val)
          /\ cf = <<ResultOf(cb, Unmarshal(b).val)>>

\* C18: at most one goroutine is inside Load, between its Lock and its
\* Unlock, at any time; and when a Load reads the loader's fields no other
\* Load is under way and the stored config and fingerprint are a pair left
\* by one completed Load.
C18_Step ==
    \A g \in Goroutines :
        LoadReads(g) =>
            /\ \A h \in Goroutines \ {g} : lpc[h] = ""
            /\ mu = g
            /\ PairConsistent(conf, fprint)

C18_OneLoadAtATime ==
    /\ [](\A g, h \in Goroutines : g # h => ~(lpc[g] # "" /\ lpc[h] # ""))
    /\ [][C18_Step]_vars

\* C18 witness: the Load of the timer case has stored the new config and not
\* yet its fingerprint, while SetConfigPath is about to call Load.
C18_Witness ==
    /\ mu = "watch" /\ lpc["watch"] = "fprint"
    /\ pc = "scp_load" /\ lpc["caller"] = ""
    /\ ~PairConsistent(conf, fprint)

\* C21 as stated: a Load that reads a file of fewer than MinSize bytes, while
\* a config is stored and a subscriber is registered, returns an error and
\* leaves the stored config, the fingerprint and every subscriber channel as
\* they were.
C21_Original_Step ==
    LoadRan /\ CanRead /\ Len(BytesRead) < MinSize /\ conf # <<>> /\ Len(subs) >= 1 =>
        last'.err /\ SnapshotKept

C21_Original == [][C21_Original_Step]_vars

\* C22 as stated: after a Load that changes the stored config, every channel
\* that was registered and empty before the Load holds the newly stored value,
\* whichever statement of Load stored it.
C22_Original_Step ==
    LoadRan /\ conf' # conf =>
        \A i \in DOMAIN subs : subs[i] = <<>> => subs'[i] = conf'

C22_Original == [][C22_Original_Step]_vars

\* A step of goroutine g inside Load, after its Lock has returned.
LoadStep(g) ==
    \/ LoadCompute(g)
    \/ LoadStoreConf(g)
    \/ LoadStoreFprint(g)
    \/ LoadBroadcast(g)
    \/ LoadUnlock(g)

\* C23: no channel ever holds more than one value; a Load that holds the
\* mutex can always take its next step, the broadcast loop included, whatever
\* the channels hold and whether or not anybody reads them; and the broadcast
\* loop leaves every occupied channel exactly as it was, putting the new value
\* into the empty ones only.
C23_Step ==
    \A g \in Goroutines :
        lpc[g] = "send" /\ lpc'[g] # "send" =>
            /\ DOMAIN subs' = DOMAIN subs
            /\ \A i \in DOMAIN subs :
                  subs'[i] = IF subs[i] = <<>> THEN lres[g].conf ELSE subs[i]

C23_DropOnFull ==
    /\ [](\A i \in DOMAIN subs : Len(subs[i]) <= ChanCap)
    /\ [](\A g \in Goroutines : lpc[g] # "" => ENABLED LoadStep(g))
    /\ [][C23_Step]_vars

\* C23 witness: the timer's Load has stored a new config and run its broadcast
\* loop while the subscriber's channel still held the previous value: the
\* channel kept it and the new value was dropped.
C23_Witness ==
    /\ lpc["watch"] = "unlock" /\ lres["watch"].sent
    /\ conf = lres["watch"].conf
    /\ Len(subs) >= 1 /\ subs[1] # <<>> /\ subs[1] # conf

\* The Load of the step takes the empty-path branch.
NoPathLoad == LoadRan /\ path = "" /\ ~required

\* C24 as stated: with path "" and required false, every Load run while a
\* subscriber waits on an empty channel stores the default value and puts it
\* into the channel.
C24_Original_Step ==
    NoPathLoad /\ (\E i \in DOMAIN subs : subs[i] = <<>>) =>
        /\ conf' = <<ResultOf(callback, zero)>>
        /\ Delivered(ResultOf(callback, zero))

C24_Original == [][C24_Original_Step]_vars

\* C24 amended: with path "" and required false, every Load, the first or a
\* later one, whatever fingerprint is stored, calls the callback (if any) on
\* the zero value and, unless the callback rejects it, stores the result under
\* the fingerprint of its encoding and offers it to every registered channel,
\* as does the Load after it; when the callback rejects the zero value the
\* Load returns the error and stores and sends nothing.
C24_Step ==
    NoPathLoad =>
        /\ ~last'.r.decoded /\ last'.r.bytes = ""
        /\ last'.r.cbCalled <=> callback # "nil"
        /\ IF Accepts(callback, zero)
           THEN /\ ~last'.err /\ last'.r.kind = "default" /\ last'.r.sent
                /\ conf' = <<ResultOf(callback, zero)>>
                /\ fprint' = Sha256(Marshal(ResultOf(callback, zero)))
                /\ Delivered(ResultOf(callback, zero))
                /\ bcast' = conf'
                /\ LoadAgain.sent /\ LoadAgain.kind = "default"
                /\ LoadAgain.conf = conf' /\ LoadAgain.fprint = fprint'
           ELSE /\ last'.err /\ ~last'.r.sent /\ SnapshotKept /\ bcast' = bcast
                /\ LoadAgain.err

C24_DefaultEveryLoad == [][C24_Step]_vars

\* C24 witness: with no path ever set, a Load has put the default into the
\* empty channel of the second subscriber while the first subscriber's channel
\* still held the default of an earlier Load: the stored fingerprint was the
\* default's already and the value was sent again.
C24_Witness ==
    /\ last.op = "Load" /\ last.r.kind = "default" /\ last.r.took = 1
    /\ path = "" /\ ~required
    /\ Len(subs) = 2 /\ subs[1] = conf /\ subs[2] = conf

\* The watch loop runs in notification mode and has nothing left to do for
\* SetConfigPath: no "update" waits in b.control or is being handled, and no
\* SetConfigPath stands between setting the path and sending its command.
Repointed ==
    /\ wpc \in {"notify", "timer_notify"}
    /\ \A k \in DOMAIN control : control[k] # "update"
    /\ pc # "scp_send"

\* C25: in notification mode, whenever the watch loop has handled every
\* "update", the directories watched are exactly the directory of b.path when
\* b.path is not empty and none otherwise, and the loop's own `path` is b.path.
C25_WatchRepointed == Repointed => watched = DirsOf(path) /\ wpath = path

\* C25 witness: SetConfigPath has moved the path from d1/a.yaml, whose config
\* is still the stored one, to d2/b.yaml; the watch loop has handled the
\* command and watches d2 only, before the synchronous Load has run.
C25_Witness ==
    /\ Repointed /\ control = <<>> /\ pc = "scp_load"
    /\ path = "d2/b.yaml" /\ watched = {"d2"}
    /\ conf = <<[Foo |-> "good"]>> /\ fprint = Sha256(files["d1/a.yaml"])

\* C26: RegisterCallback changes b.callback and nothing else: the stored
\* config (even one the new callback would reject), the fingerprint, the path,
\* the required flag, the channels and what they hold stay, no Load runs and
\* nothing is sent; b.callback changes in no other step; and a Load that gets
\* as far as the callback calls the one registered at that moment: it stores
\* what that callback returns or fails when that callback rejects.
C26_Step ==
    /\ last'.op = "RegisterCallback" =>
          /\ UNCHANGED <<conf, fprint, path, required, subs, bcast, control, closed, files,
                         pc, loc, watcher>>
          /\ last'.ret = "RegisterCallback" /\ ~last'.err /\ last'.r = NoLoad
    /\ callback' # callback => last'.op = "RegisterCallback"
    /\ LoadRan /\ last'.r.kind \in {"stored", "rejected"} =>
          /\ last'.r.cbCalled <=> callback # "nil"
          /\ last'.r.kind = "stored" <=> Accepts(callback, Unmarshal(BytesRead).val)
          /\ last'.r.kind = "stored" => conf' = <<ResultOf(callback, Unmarshal(BytesRead).val)>>
    /\ LoadRan /\ last'.r.kind \in {"default", "fallback", "default-rejected"} =>
          /\ last'.r.cbCalled <=> callback # "nil"
          /\ last'.r.kind = "default-rejected" <=> ~Accepts(callback, zero)
          /\ last'.r.kind # "default-rejected" => conf' = <<ResultOf(callback, zero)>>

C26_RegisterCallbackFrame == [][C26_Step]_vars

\* C26 witness: Foo="bad" was loaded and is stored; the callback that rejects
\* "bad" has just been registered, and the stored config, its fingerprint and
\* the subscriber's empty channel are as before.
C26_Witness ==
    /\ last.op = "RegisterCallback" /\ callback = "rejectBad"
    /\ conf = <<[Foo |-> "bad"]>> /\ fprint = Sha256("foo: bad\n")
    /\ Len(subs) >= 1 /\ subs[1] = <<>>

\* Subscribe puts the config it read into the channel it has just registered.
OwnSend(i) == last'.op = "SubSend" /\ pc = "sub_send" /\ i = Len(subs)

\* C27: the stored config and fingerprint change only in a step that runs
\* Load, and a value enters a channel that is already registered only in such
\* a step, or in the step of Subscribe that sends the initial value into its
\* own new channel; every step of SetConfigPath, RegisterCallback, Subscribe,
\* Config and of the watch loop that is not a run of Load leaves the stored
\* pair alone and changes a registered channel at most by its reader taking
\* the value out. Load is run only by a direct call, by SetConfigPath, by
\* Config and by the timer and event cases of the watch loop.
C27_Step ==
    /\ ~LoadRan =>
          /\ conf' = conf /\ fprint' = fprint /\ bcast' = bcast
          /\ Len(subs') >= Len(subs)
          /\ \A i \in DOMAIN subs : subs'[i] = subs[i] \/ Reads(i) \/ OwnSend(i)
    /\ \A i \in DOMAIN subs : OwnSend(i) =>
          /\ subs'[i] = loc
          /\ \A j \in DOMAIN subs : j # i => subs'[j] = subs[j]
    /\ LoadRan =>
          /\ last'.by \in {"Load", "SetConfigPath", "Config", "timer", "event"}
          /\ last'.by = "Load" => pc = "idle"
          /\ last'.by = "SetConfigPath" => pc = "scp_load"
          /\ last'.by = "Config" => pc = "cfg_load"
          /\ last'.by = "timer" => wpc \in {"timer_notify", "timer_poll"}
          /\ last'.by = "event" => wpc = "notify"

C27_SingleWriter == [][C27_Step]_vars

\* C27 witness: Subscribe has put the stored config into its own new channel
\* and left the empty channel of the subscriber registered before it empty.
C27_Witness ==
    /\ last.op = "SubSend" /\ last.ret = "Subscribe" /\ pc = "idle"
    /\ Len(subs) = 2 /\ subs[1] = <<>> /\ subs[2] = conf /\ conf # <<>>

\* C28 as stated: a Subscribe that found a config stored, and so has an
\* initial value to send into its new channel, eventually returns.
C28_Original == (pc = "sub_send") ~> (pc = "idle")

\* C29 as stated: a SetConfigPath that has set a new pair, and so has its
\* "update" to send, eventually returns.
C29_Original == (pc = "scp_send") ~> (pc = "idle")

\* C30 as stated: whenever a public operation has returned the mutex is not
\* held by its caller; in particular after SetConfigPath(path) of the
\* single-argument variant called with the current path.
C30_Original == pc = "idle" => mu # "caller"

\* What a Config() called right after the step returns: the stored config, or,
\* with none stored, what the Load it runs leaves stored.
ConfigAfter == IF conf' # <<>> THEN conf' ELSE LoadAgain.conf

\* C31 as stated: whenever SetConfigPath returns nil with `required` true, a
\* config is stored and a Config() that follows at once returns it.
C31_Original_Step ==
    last'.ret = "SetConfigPath" /\ ~last'.err /\ required' =>
        conf' # <<>> /\ ConfigAfter # <<>>

C31_Original == [][C31_Original_Step]_vars

\* C32: a stored config is never absent again: no step, whether a Load that
\* fails or succeeds, a SetConfigPath to any path with any `required`, a
\* RegisterCallback or a step of the watch loop, takes b.conf from a value
\* to nil; and a Config() that returns while a config is stored returns it.
C32_Step ==
    /\ conf # <<>> => conf' # <<>>
    /\ last'.ret = "Config" /\ conf # <<>> => last'.val = conf /\ last'.val # <<>>
    /\ LoadRan /\ conf # <<>> => LoadAgain.conf # <<>>

C32_MonotonicAvailability == [][C32_Step]_vars

\* C32 witness: with a config stored, the loader was pointed at no path with
\* `required` true, its Load failed, and Config() has still returned the
\* stored config.
C32_Witness ==
    /\ last.op = "Config" /\ last.ret = "Config" /\ last.val # <<>>
    /\ last.val = conf /\ path = "" /\ required

====
